---- MODULE Spec2Model ----
(***************************************************************************)
(* Notebook import hook of src/linear_algebra.ipynb: the name resolver     *)
(* find_notebook, the NotebookLoader and the process-wide state they act   *)
(* on (the file system, sys.modules, the shell's user namespace); and the  *)
(* matrix functions shape, make_matrix and matrix_add of the same file.    *)
(*                                                                         *)
(* Encoding of Python values:                                              *)
(*   str          a sequence of one-character strings, "a_b" is            *)
(*                <<"a", "_", "b">> and "" is <<>>                         *)
(*   list of str  a sequence of such sequences                             *)
(*   None / x     an optional value is <<>> for None and <<x>> for x, so   *)
(*                the argument path=None is <<>>, path=[] is << <<>> >>    *)
(*                and path=["c"] is << << <<"c">> >> >>                    *)
(***************************************************************************)
EXTENDS Integers, Sequences, FiniteSets, TLC

VARIABLES
    fs,           \* the file system: regular-file path -> file content
    fn,           \* the last find_notebook call: arguments and value returned
    loaderObjs,   \* the NotebookLoader objects, by identity (index)
    mods,         \* the module objects created, by identity (index)
    sys_modules,  \* sys.modules: module name -> identity of a module object
    user_ns,      \* shell.user_ns: the dict the shell's magics act on
    frame,        \* the load_module call in progress, if any
    outcome,      \* how the last load_module call ended
    call,         \* history of the last load_module call (not program state)
    finders,      \* the NotebookFinder objects, by identity: each its loaders dict
    meta_path,    \* sys.meta_path: the host's module-resolution chain
    fm,           \* the last find_module call: arguments and what it did
    handed,       \* history: the (finder, path, loader) of every Loader returned
    reg,          \* history of the last registration of a Finder
    mx            \* the last call of a matrix function: arguments and result

vars == <<fs, fn, loaderObjs, mods, sys_modules, user_ns, frame, outcome, call,
          finders, meta_path, fm, handed, reg, mx>>

loaderVars == <<loaderObjs, mods, sys_modules, user_ns, frame, outcome, call>>

finderVars == <<finders, meta_path, fm, handed, reg>>

----------------------------------------------------------------------------
(* Bounds of the model *)

\* most regular files present in the file system of the resolver runs
MaxFiles == 2
\* longest search path (number of directories) passed to find_notebook
MaxPathLen == 2
\* most notebook files present in the file system of the loader runs
MaxLoadFiles == 1
\* most NotebookLoader objects constructed directly, by NotebookLoader(path)
MaxLoaders == 1
\* most module objects created by load_module calls
MaxMods == 2
\* most notebook files present in the file system of the finder runs
MaxFinderFiles == 2
\* most NotebookFinder objects registered
MaxFinders == 1
\* most rows of a matrix passed to or asked of the matrix functions
MaxRows == 2
\* most entries of a row of such a matrix
MaxCols == 1

----------------------------------------------------------------------------
(* Python values *)

NoneV == <<>>
Some(x) == <<x>>

\* the literal ".ipynb" of find_notebook
Ext == <<".", "i", "p", "y", "n", "b">>

----------------------------------------------------------------------------
(* String primitives used by find_notebook *)

\* a slip that keeps the whole dotted name
rsplit_none(s) == s

\* s.rsplit('.', 1)[-1]: what follows the last '.', or all of s without one
rsplit_last(s) ==
    LET dots == {i \in 1..Len(s) : s[i] = "."}
    IN  IF dots = {} THEN s
        ELSE LET k == CHOOSE i \in dots : \A j \in dots : j <= i
             IN  SubSeq(s, k + 1, Len(s))

\* s.replace("_", " ")
RECURSIVE str_replace(_)
str_replace(s) ==
    IF s = <<>> THEN <<>>
    ELSE <<IF Head(s) = "_" THEN " " ELSE Head(s)>> \o str_replace(Tail(s))

\* posixpath.join(a, b) for two components
os_path_join(a, b) ==
    IF b # <<>> /\ Head(b) = "/" THEN b
    ELSE IF a = <<>> \/ a[Len(a)] = "/" THEN a \o b
    ELSE a \o <<"/">> \o b

\* os.path.isfile(p) against the file system files
isfile(files, p) == p \in DOMAIN files

----------------------------------------------------------------------------
(* find_notebook *)

\* "if not path": None and the empty list are falsy
path_falsy(path) == path = NoneV \/ path = Some(<<>>)

\* a slip that defaults only None, not the empty list
default_path_none_only(path) == IF path = NoneV THEN << <<>> >> ELSE path[1]

\* the list find_notebook iterates over, after "if not path: path = ['']"
default_path(path) == IF path_falsy(path) THEN << <<>> >> ELSE path[1]

\* the candidate built for directory d, and the one tested after it
exact_candidate(d, name) == os_path_join(d, name \o Ext)
fallback_candidate(d, name) == str_replace(exact_candidate(d, name))

\* a slip that tests the underscore-to-space candidate before the exact one
RECURSIVE find_in_fallback_first(_, _, _)
find_in_fallback_first(name, dirs, files) ==
    IF dirs = <<>> THEN NoneV
    ELSE LET d == Head(dirs)
         IN  IF isfile(files, fallback_candidate(d, name))
                 THEN Some(fallback_candidate(d, name))
             ELSE IF isfile(files, exact_candidate(d, name))
                 THEN Some(exact_candidate(d, name))
             ELSE find_in_fallback_first(name, Tail(dirs), files)

\* the for loop over the directories: first hit wins, None when exhausted
RECURSIVE find_in(_, _, _)
find_in(name, dirs, files) ==
    IF dirs = <<>> THEN NoneV
    ELSE LET d == Head(dirs)
         IN  IF isfile(files, exact_candidate(d, name))
                 THEN Some(exact_candidate(d, name))
             ELSE IF isfile(files, fallback_candidate(d, name))
                 THEN Some(fallback_candidate(d, name))
             ELSE find_in(name, Tail(dirs), files)

find_notebook(fullname, path, files) ==
    find_in(rsplit_last(fullname), default_path(path), files)

----------------------------------------------------------------------------
(* Inputs of the resolver runs *)

sF_B == <<"F", "_", "B">>
sFsB == <<"F", " ", "B">>
sG == <<"G">>
sp == <<"p">>
sq == <<"q">>
da_b == <<"a", "_", "b">>
dasb == <<"a", " ", "b">>
dc == <<"c">>

\* a dotted name from its segments: ".".join(segs)
RECURSIVE Dotted(_)
Dotted(segs) ==
    IF Len(segs) = 1 THEN segs[1]
    ELSE segs[1] \o <<".">> \o Dotted(Tail(segs))

\* the dotted names requested, as segment lists
SegLists == {<<sF_B>>, <<sp, sF_B>>, <<sG>>, <<sp, sG>>, <<sq, sp, sG>>}

\* the directories a search path is made of
Dirs == {da_b, dasb, dc}

SeqsUpTo(S, n) == UNION {[1..k -> S] : k \in 1..n}

\* the values of the path argument: None, [] and the non-empty lists
PathArgs == {NoneV, Some(<<>>)} \cup {Some(l) : l \in SeqsUpTo(Dirs, MaxPathLen)}

\* the files that may exist: each base name in each directory
FileUniverse ==
    {os_path_join(d, b \o Ext) : d \in Dirs \cup {<<>>, sp}, b \in {sF_B, sFsB, sG}}

\* a file content of no interest to the resolver
NoCells == [wellformed |-> TRUE, cells |-> <<>>]

----------------------------------------------------------------------------
(* Notebook documents: the cells nbformat reads, each with the cell_type   *)
(* and source fields; a source is one statement of pure Python, which the  *)
(* shell's input transformer leaves as it is                               *)

\* target = value
AssignConst(t, v) == [op |-> "const", target |-> t, src |-> "", value |-> v]
\* target = src + value
AssignAdd(t, x, v) == [op |-> "add", target |-> t, src |-> x, value |-> v]
\* raise RuntimeError()
RaiseStmt == [op |-> "raise", target |-> "", src |-> "", value |-> 0]
\* prose
Prose == [op |-> "text", target |-> "", src |-> "", value |-> 0]

Code(source) == [cell_type |-> "code", source |-> source]
Markdown == [cell_type |-> "markdown", source |-> Prose]

\* x = 1, prose, y = x + 1
DocXY == <<Code(AssignConst("x", 1)), Markdown, Code(AssignAdd("y", "x", 1))>>
\* x = 1, raise, y = x + 1: the second fragment raises
DocRaise2 == <<Code(AssignConst("x", 1)), Code(RaiseStmt), Code(AssignAdd("y", "x", 1))>>
\* prose, y = x + 1, x = 1: the first fragment raises NameError
DocNameError == <<Markdown, Code(AssignAdd("y", "x", 1)), Code(AssignConst("x", 1))>>

\* x = 2
DocX2 == <<Code(AssignConst("x", 2))>>

Notebook(cells) == [wellformed |-> TRUE, cells |-> cells]
\* a file that nbformat.read rejects
Malformed == [wellformed |-> FALSE, cells |-> <<>>]

Contents == {Notebook(DocXY), Notebook(DocRaise2), Notebook(DocNameError), Malformed}

----------------------------------------------------------------------------
(* NotebookLoader *)

\* the shell's own interactive namespace, as a value of user_ns; the dict of
\* module object k is the value k
MainNs == 0

\* ns[k] = v on a dict
Bind(ns, k, v) == [n \in DOMAIN ns \cup {k} |-> IF n = k THEN v ELSE ns[n]]

\* a slip that starts from the namespace of the module imported before
DictOfLastModule ==
    IF mods = <<>> THEN [n \in {"get_ipython"} |-> "<function get_ipython>"]
    ELSE mods[Len(mods)].dict

\* the __dict__ of a new module after mod.__dict__['get_ipython'] = get_ipython
NewDict == [n \in {"get_ipython"} |-> "<function get_ipython>"]

\* exec(code, ns): whether it raised, and ns afterwards
exec_code(source, ns) ==
    CASE source.op = "const" ->
            [raised |-> FALSE, ns |-> Bind(ns, source.target, source.value)]
      [] source.op = "add" ->
            IF source.src \in DOMAIN ns
                THEN [raised |-> FALSE,
                      ns |-> Bind(ns, source.target, ns[source.src] + source.value)]
                ELSE [raised |-> TRUE, ns |-> ns]
      [] OTHER -> [raised |-> TRUE, ns |-> ns]

\* a slip that runs every cell, whatever its type
is_any_cell(cell) == TRUE

\* cell.cell_type == 'code'
is_code(cell) == cell.cell_type = "code"

\* a slip that takes any file for a notebook
read_ok_always(content) == TRUE

\* read(f, 4) returns a notebook; it raises on a file that is not one
read_ok(content) == content.wellformed

\* a slip that swallows the exception of a fragment: "except: pass"
swallowed(r) == FALSE

\* an exception raised by exec leaves the loop: the try has no except clause
propagates(r) == r.raised

\* a slip that forgets the finally clause
user_ns_left(saved, current) == current

\* finally: self.shell.user_ns = save_user_ns
restored_user_ns(saved, current) == saved

\* a slip that leaves the registry alone
register_skipped(registry, fullname, mod) == registry

\* sys.modules[fullname] = mod
register(registry, fullname, mod) ==
    [n \in DOMAIN registry \cup {fullname} |->
        IF n = fullname THEN mod ELSE registry[n]]

NoFrame == [active |-> FALSE, self |-> 0, fullname |-> <<>>, cells |-> <<>>,
            mod |-> 0, save_user_ns |-> MainNs, i |-> 0]

NoOutcome == [kind |-> "none", stage |-> "", fullname |-> <<>>, mod |-> 0]

EmptyRegistry == [n \in {} |-> 0]

NoHistory == [pre |-> EmptyRegistry, pre_user_ns |-> MainNs, pre_mods |-> 0,
              self |-> 0, fullname |-> <<>>, path |-> NoneV,
              content |-> NoCells, cells |-> <<>>, executed |-> <<>>]

Raised(stage, fullname) ==
    [kind |-> "raised", stage |-> stage, fullname |-> fullname, mod |-> 0]

\* NotebookLoader(path): a new loader object
NotebookLoader_init(path) ==
    /\ ~frame.active
    /\ Len(loaderObjs) < MaxLoaders
    /\ loaderObjs' = Append(loaderObjs, [path |-> path])
    /\ UNCHANGED <<fs, fn, mx, mods, sys_modules, user_ns, frame, outcome, call>>
    /\ UNCHANGED finderVars

\* load_module(fullname) on loader self, up to the try statement: resolve and
\* read the file, create and register the module, redirect shell.user_ns
load_module_begin(self, fullname) ==
    /\ ~frame.active
    /\ LET path == find_notebook(fullname, loaderObjs[self].path, fs)
           history == [pre |-> sys_modules, pre_user_ns |-> user_ns,
                       pre_mods |-> Len(mods),
                       self |-> self, fullname |-> fullname, path |-> path,
                       content |-> IF path = NoneV THEN NoCells ELSE fs[path[1]],
                       cells |-> <<>>, executed |-> <<>>]
       IN  IF path = NoneV
               \* io.open(None) raises TypeError
               THEN /\ outcome' = Raised("open", fullname)
                    /\ call' = history
                    /\ UNCHANGED <<mods, sys_modules, user_ns, frame>>
           ELSE IF ~read_ok(fs[path[1]])
               \* read(f, 4) raises
               THEN /\ outcome' = Raised("read", fullname)
                    /\ call' = history
                    /\ UNCHANGED <<mods, sys_modules, user_ns, frame>>
           ELSE /\ Len(mods) < MaxMods
                /\ LET mod == Len(mods) + 1
                   IN  /\ mods' = Append(mods, [name |-> fullname,
                                                file |-> path[1],
                                                loader |-> self,
                                                dict |-> NewDict])
                       /\ sys_modules' = register(sys_modules, fullname, mod)
                       /\ user_ns' = mod
                       /\ frame' = [active |-> TRUE, self |-> self,
                                    fullname |-> fullname,
                                    cells |-> fs[path[1]].cells, mod |-> mod,
                                    save_user_ns |-> user_ns, i |-> 1]
                /\ outcome' = NoOutcome
                /\ call' = [history EXCEPT !.cells = fs[path[1]].cells]
    /\ UNCHANGED <<fs, fn, mx, loaderObjs>>
    /\ UNCHANGED finderVars

\* one iteration of "for cell in nb.cells"; a fragment that raises ends the
\* call through the finally clause
exec_cell ==
    /\ frame.active
    /\ frame.i <= Len(frame.cells)
    /\ LET cell == frame.cells[frame.i]
       IN  IF is_code(cell)
               THEN LET r == exec_code(cell.source, mods[frame.mod].dict)
                    IN  /\ mods' = [mods EXCEPT ![frame.mod].dict = r.ns]
                        /\ call' = [call EXCEPT !.executed = Append(@, frame.i)]
                        /\ IF propagates(r)
                               THEN /\ user_ns' = restored_user_ns(frame.save_user_ns,
                                                                   user_ns)
                                    /\ frame' = NoFrame
                                    /\ outcome' = Raised("exec", frame.fullname)
                               ELSE /\ frame' = [frame EXCEPT !.i = @ + 1]
                                    /\ UNCHANGED <<user_ns, outcome>>
               ELSE /\ frame' = [frame EXCEPT !.i = @ + 1]
                    /\ UNCHANGED <<mods, call, user_ns, outcome>>
    /\ UNCHANGED <<fs, fn, mx, loaderObjs, sys_modules>>
    /\ UNCHANGED finderVars

\* the loop is exhausted: the finally clause, then "return mod"
load_module_end ==
    /\ frame.active
    /\ frame.i > Len(frame.cells)
    /\ user_ns' = restored_user_ns(frame.save_user_ns, user_ns)
    /\ outcome' = [kind |-> "returned", stage |-> "", fullname |-> frame.fullname,
                   mod |-> frame.mod]
    /\ frame' = NoFrame
    /\ UNCHANGED <<fs, fn, mx, loaderObjs, mods, sys_modules, call>>
    /\ UNCHANGED finderVars

\* the environment saves another content into a notebook file between two
\* imports; load_module opens and reads the file anew at every call
write_file(p, content) ==
    /\ ~frame.active
    /\ p \in DOMAIN fs
    /\ content # fs[p]
    /\ fs' = [fs EXCEPT ![p] = content]
    /\ UNCHANGED <<fn, mx, loaderVars, finderVars>>

----------------------------------------------------------------------------
(* NotebookFinder and its registration *)

\* os.path.sep.join(path)
RECURSIVE sep_join(_)
sep_join(path) ==
    IF path = <<>> THEN <<>>
    ELSE IF Len(path) = 1 THEN path[1]
    ELSE path[1] \o <<"/">> \o sep_join(Tail(path))

\* a slip that never declines
not_found_never(nb_path) == FALSE

\* "if not nb_path": find_notebook found nothing
not_found(nb_path) == nb_path = NoneV

\* hash(key), which "key not in self.loaders" needs: None and a str are
\* hashable, a list is not; the key is the path argument itself when that is
\* falsy (None or []) and the joined string otherwise
key_unhashable(path) == path # NoneV /\ path_falsy(path)

\* a slip that keys the cache by the first directory of the search path
cache_key_first_dir(path) == IF path_falsy(path) THEN NoneV ELSE Some(path[1][1])

\* the key of find_module: None for path=None, the str sep.join(path) for a
\* non-empty list
cache_key(path) == IF path_falsy(path) THEN NoneV ELSE Some(sep_join(path[1]))

\* a slip that builds a new Loader at every call
cache_has_never(loaders, key) == FALSE

\* key in self.loaders
cache_has(loaders, key) == key \in DOMAIN loaders

\* a slip that puts the Finder first: insert(0, x)
list_prepend(chain, x) == <<x>> \o chain

\* list.append(x)
list_append(chain, x) == Append(chain, x)

EmptyCache == [k \in {} |-> 0]

NoFindModule == [called |-> FALSE, finder |-> 0, fullname |-> <<>>,
                 path |-> NoneV, kind |-> "none", loader |-> 0,
                 created |-> FALSE]

NoRegistration == [done |-> FALSE, before |-> <<>>, finder |-> 0]

\* an entry of sys.meta_path: a mechanism of the host, or NotebookFinder k
Builtin(name) == [kind |-> name, id |-> 0]
FinderEntry(k) == [kind |-> "NotebookFinder", id |-> k]

\* sys.meta_path of the interpreter before the hook is registered
BuiltinChain ==
    <<Builtin("BuiltinImporter"), Builtin("FrozenImporter"), Builtin("PathFinder")>>

\* sys.meta_path.append(NotebookFinder()): a new Finder with an empty loaders
\* dict, appended to the chain
register_hook ==
    /\ ~frame.active
    /\ Len(finders) < MaxFinders
    /\ LET finder == Len(finders) + 1
       IN  /\ finders' = Append(finders, EmptyCache)
           /\ meta_path' = list_append(meta_path, FinderEntry(finder))
           /\ reg' = [done |-> TRUE, before |-> meta_path, finder |-> finder]
    /\ UNCHANGED <<fs, fn, mx, loaderVars, fm, handed>>

\* find_module(fullname, path) on Finder self
find_module(self, fullname, path) ==
    /\ ~frame.active
    /\ LET nb_path == find_notebook(fullname, path, fs)
           key == cache_key(path)
           this == [called |-> TRUE, finder |-> self, fullname |-> fullname,
                    path |-> path, kind |-> "none", loader |-> 0,
                    created |-> FALSE]
       IN  IF not_found(nb_path)
               \* return (None)
               THEN /\ fm' = [this EXCEPT !.kind = "declined"]
                    /\ UNCHANGED <<finders, loaderObjs, handed>>
           ELSE IF key_unhashable(path)
               \* "key not in self.loaders" raises TypeError
               THEN /\ fm' = [this EXCEPT !.kind = "raised"]
                    /\ UNCHANGED <<finders, loaderObjs, handed>>
           ELSE IF cache_has(finders[self], key)
               THEN /\ fm' = [this EXCEPT !.kind = "loader",
                                          !.loader = finders[self][key]]
                    /\ handed' = handed \cup {<<self, path, finders[self][key]>>}
                    /\ UNCHANGED <<finders, loaderObjs>>
           ELSE LET loader == Len(loaderObjs) + 1
                IN  /\ loaderObjs' = Append(loaderObjs, [path |-> path])
                    /\ finders' = [finders EXCEPT
                                      ![self] = [k \in DOMAIN @ \cup {key} |->
                                                    IF k = key THEN loader ELSE @[k]]]
                    /\ fm' = [this EXCEPT !.kind = "loader", !.loader = loader,
                                          !.created = TRUE]
                    /\ handed' = handed \cup {<<self, path, loader>>}
    /\ UNCHANGED <<fs, fn, mx, mods, sys_modules, user_ns, frame, outcome, call,
                   meta_path, reg>>

----------------------------------------------------------------------------
(* Matrix functions: a matrix is a list of rows, each a list of numbers;   *)
(* index k of a Python list is position k + 1 of the sequence. The result  *)
(* of a call is the value returned or the exception raised                 *)

Returned(value) == [kind |-> "matrix", value |-> value]
Raise(exception) == [kind |-> exception, value |-> <<>>]

\* range(n): 0, ..., n - 1
range(n) == [k \in 1..n |-> k - 1]

\* a slip that reports a square matrix
shape_of_rows(A) == <<Len(A), Len(A)>>

\* num_rows = len(A); num_cols = len(A[0]) if A else 0
shape(A) == <<Len(A), IF A # <<>> THEN Len(A[1]) ELSE 0>>

\* A[i][j]: the entry, or None where the index is out of range and Python
\* raises IndexError
getitem(A, i, j) ==
    IF i + 1 \in DOMAIN A /\ j + 1 \in DOMAIN A[i + 1]
        THEN Some(A[i + 1][j + 1])
        ELSE NoneV

\* a slip that returns the entry of A
entry_left(A, B, i, j) == getitem(A, i, j)

\* entry_fn of matrix_add: A[i][j] + B[i][j]
entry_sum(A, B, i, j) ==
    LET a == getitem(A, i, j)
        b == getitem(B, i, j)
    IN  IF a = NoneV \/ b = NoneV THEN NoneV ELSE Some(a[1] + b[1])

\* [[entry_fn(i, j) for j in range(num_cols)] for i in range(num_rows)];
\* entry_fn maps (i, j) to its value, or to None where the call raises
make_matrix(num_rows, num_cols, entry_fn) ==
    LET cells == [r \in 1..num_rows |-> [c \in 1..num_cols |->
                     entry_fn[<<range(num_rows)[r], range(num_cols)[c]>>]]]
    IN  IF \E r \in 1..num_rows, c \in 1..num_cols : cells[r][c] = NoneV
            THEN Raise("IndexError")
            ELSE Returned([r \in 1..num_rows |-> [c \in 1..num_cols |->
                              cells[r][c][1]]])

matrix_add(A, B) ==
    IF shape(A) # shape(B)
        THEN Raise("ArithmeticError")
        ELSE LET num_rows == shape(A)[1]
                 num_cols == shape(A)[2]
                 entry_fn == [ij \in (0..(num_rows - 1)) \X (0..(num_cols - 1)) |->
                                 entry_sum(A, B, ij[1], ij[2])]
             IN  make_matrix(num_rows, num_cols, entry_fn)

\* the numbers of the matrices, the rows and the matrices of the runs (rows
\* of one matrix may differ in length), and the entry functions
Entries == {-1, 2}
Rows == UNION {[1..n -> Entries] : n \in 0..MaxCols}
Matrices == UNION {[1..m -> Rows] : m \in 0..MaxRows}
EntryFns == [(0..(MaxRows - 1)) \X (0..(MaxCols - 1)) -> {Some(v) : v \in Entries}]

NoEntryFn == [ij \in {} |-> NoneV]

NoMatrixCall == [called |-> FALSE, op |-> "none", A |-> <<>>, B |-> <<>>,
                 A0 |-> <<>>, B0 |-> <<>>, num_rows |-> 0, num_cols |-> 0,
                 entry_fn |-> NoEntryFn, result |-> Raise("none")]

MatrixIdle == mx = NoMatrixCall

\* matrix_add(A, B) on the arguments drawn; A and B are the list objects, A0
\* and B0 what they held at the call
MatrixAdd ==
    /\ mx.op = "matrix_add"
    /\ ~mx.called
    /\ mx' = [mx EXCEPT !.called = TRUE, !.result = matrix_add(mx.A, mx.B)]
    /\ UNCHANGED <<fs, fn, loaderVars, finderVars>>

\* shape(make_matrix(num_rows, num_cols, entry_fn)) on the arguments drawn
MakeMatrix ==
    /\ mx.op = "make_matrix"
    /\ ~mx.called
    /\ mx' = [mx EXCEPT !.called = TRUE,
                        !.result = make_matrix(mx.num_rows, mx.num_cols, mx.entry_fn)]
    /\ UNCHANGED <<fs, fn, loaderVars, finderVars>>

----------------------------------------------------------------------------
(* Specifications *)

LoaderIdle ==
    /\ loaderObjs = <<>>
    /\ mods = <<>>
    /\ sys_modules = EmptyRegistry
    /\ user_ns = MainNs
    /\ frame = NoFrame
    /\ outcome = NoOutcome
    /\ call = NoHistory

FinderIdle ==
    /\ finders = <<>>
    /\ fm = NoFindModule
    /\ handed = {}
    /\ reg = NoRegistration

\* the arguments of the call are drawn here; FindNotebook applies the function
InitFind ==
    /\ \E S \in SUBSET FileUniverse :
          /\ Cardinality(S) <= MaxFiles
          /\ fs = [p \in S |-> NoCells]
    /\ \E segs \in SegLists, path \in PathArgs :
          fn = [called |-> FALSE, segs |-> segs, fullname |-> Dotted(segs),
                path |-> path, result |-> NoneV]
    /\ LoaderIdle
    /\ MatrixIdle
    /\ FinderIdle
    /\ meta_path = BuiltinChain

\* the call find_notebook(fullname, path) and its return
FindNotebook ==
    /\ ~fn.called
    /\ fn' = [fn EXCEPT !.called = TRUE,
                        !.result = find_notebook(fn.fullname, fn.path, fs)]
    /\ UNCHANGED <<fs, mx, loaderVars, finderVars>>

NextFind == FindNotebook

SpecFind == InitFind /\ [][NextFind]_vars

\* the notebook files of the loader runs, the names imported and the search
\* paths loaders are built with
LoadFiles == {sG \o Ext, os_path_join(dc, sG \o Ext), sFsB \o Ext}
LoadNames == {sG, Dotted(<<sp, sG>>), sF_B}
LoaderPaths == {NoneV, Some(<<dc>>)}

Init ==
    /\ \E S \in SUBSET LoadFiles :
          /\ Cardinality(S) <= MaxLoadFiles
          /\ fs \in [S -> Contents]
    /\ fn = [called |-> FALSE, segs |-> <<sG>>, fullname |-> sG,
             path |-> NoneV, result |-> NoneV]
    /\ LoaderIdle
    /\ MatrixIdle
    /\ FinderIdle
    /\ meta_path = BuiltinChain

Next ==
    \/ \E path \in LoaderPaths : NotebookLoader_init(path)
    \/ \E self \in 1..Len(loaderObjs), fullname \in LoadNames :
          load_module_begin(self, fullname)
    \/ exec_cell
    \/ load_module_end

Spec == Init /\ [][Next]_vars

\* the runs with re-imports: the notebook G.ipynb, saved with another content
\* between imports
ReloadContents == {Notebook(DocXY), Notebook(DocX2), Notebook(DocRaise2)}

InitReload ==
    /\ \E content \in ReloadContents : fs = [p \in {sG \o Ext} |-> content]
    /\ fn = [called |-> FALSE, segs |-> <<sG>>, fullname |-> sG,
             path |-> NoneV, result |-> NoneV]
    /\ LoaderIdle
    /\ MatrixIdle
    /\ FinderIdle
    /\ meta_path = BuiltinChain

NextReload ==
    \/ \E path \in LoaderPaths : NotebookLoader_init(path)
    \/ \E self \in 1..Len(loaderObjs), fullname \in LoadNames :
          load_module_begin(self, fullname)
    \/ exec_cell
    \/ load_module_end
    \/ \E p \in LoadFiles, content \in ReloadContents : write_file(p, content)

SpecReload == InitReload /\ [][NextReload]_vars

\* the notebook files of the finder runs, the names requested and the search
\* paths given: None, [], ['c/c'] and ['c', 'c']
dcc == <<"c", "/", "c">>
FinderFiles == {sG \o Ext, os_path_join(dc, sG \o Ext), os_path_join(dcc, sG \o Ext)}
FinderNames == {sG, Dotted(<<sp, sG>>)}
FinderPaths == {NoneV, Some(<<>>), Some(<<dcc>>), Some(<<dc, dc>>)}

InitFinder ==
    /\ \E S \in SUBSET FinderFiles :
          /\ Cardinality(S) <= MaxFinderFiles
          /\ fs = [p \in S |-> Notebook(DocXY)]
    /\ fn = [called |-> FALSE, segs |-> <<sG>>, fullname |-> sG,
             path |-> NoneV, result |-> NoneV]
    /\ LoaderIdle
    /\ MatrixIdle
    /\ FinderIdle
    /\ meta_path = BuiltinChain

NextFinder ==
    \/ register_hook
    \/ \E self \in 1..Len(finders), fullname \in FinderNames, path \in FinderPaths :
          find_module(self, fullname, path)

\* the runs of the finder: the hook is registered and the import machinery
\* asks it for loaders; what a loader does when called is in Spec
SpecFinder == InitFinder /\ [][NextFinder]_vars

\* the runs of an import through the hook: the cell that registers the Finder
\* has run once, the import machinery asks the Finder for a Loader and calls
\* load_module on a Loader it was handed
InitImport ==
    /\ \E S \in SUBSET FinderFiles :
          /\ Cardinality(S) <= MaxFinderFiles
          /\ fs = [p \in S |-> Notebook(DocXY)]
    /\ fn = [called |-> FALSE, segs |-> <<sG>>, fullname |-> sG,
             path |-> NoneV, result |-> NoneV]
    /\ LoaderIdle
    /\ MatrixIdle
    /\ finders = <<EmptyCache>>
    /\ meta_path = list_append(BuiltinChain, FinderEntry(1))
    /\ fm = NoFindModule
    /\ handed = {}
    /\ reg = [done |-> TRUE, before |-> BuiltinChain, finder |-> 1]

NextImport ==
    \/ \E self \in 1..Len(finders), fullname \in FinderNames, path \in FinderPaths :
          find_module(self, fullname, path)
    \/ \E self \in 1..Len(loaderObjs), fullname \in FinderNames :
          load_module_begin(self, fullname)
    \/ exec_cell
    \/ load_module_end

SpecImport == InitImport /\ [][NextImport]_vars

\* the runs of the matrix functions: the arguments of one call are drawn
\* here, MatrixAdd and MakeMatrix apply the function
InitMatrix ==
    /\ fs = [p \in {} |-> NoCells]
    /\ fn = [called |-> FALSE, segs |-> <<sG>>, fullname |-> sG,
             path |-> NoneV, result |-> NoneV]
    /\ LoaderIdle
    /\ FinderIdle
    /\ meta_path = BuiltinChain
    /\ \/ \E A \in Matrices, B \in Matrices :
             mx = [NoMatrixCall EXCEPT !.op = "matrix_add", !.A = A, !.B = B,
                                       !.A0 = A, !.B0 = B]
       \/ \E num_rows \in 0..MaxRows, num_cols \in 0..MaxCols, entry_fn \in EntryFns :
             mx = [NoMatrixCall EXCEPT !.op = "make_matrix",
                                       !.num_rows = num_rows,
                                       !.num_cols = num_cols,
                                       !.entry_fn = entry_fn]

NextMatrix ==
    \/ MatrixAdd
    \/ MakeMatrix

SpecMatrix == InitMatrix /\ [][NextMatrix]_vars

----------------------------------------------------------------------------
(* Claims about load_module *)

\* the indices of the code cells among the first n cells, in document order
RECURSIVE CodeIndices(_, _)
CodeIndices(cells, n) ==
    IF n = 0 THEN <<>>
    ELSE IF cells[n].cell_type = "code"
        THEN Append(CodeIndices(cells, n - 1), n)
        ELSE CodeIndices(cells, n - 1)

\* the last load_module call ended because a fragment raised
FragmentRaised == outcome.kind = "raised" /\ outcome.stage = "exec"

\* fragments of the call in progress are still to be executed
Executing == frame.active /\ frame.i <= Len(frame.cells)

\* the registry maps the name being imported to the module being populated
Published ==
    /\ frame.fullname \in DOMAIN sys_modules
    /\ sys_modules[frame.fullname] = frame.mod

\* C1: after a load_module call in which a fragment raised, the module
\* registry is what it was before the call.
C1_FailedImportLeavesRegistry ==
    FragmentRaised => sys_modules = call.pre

C3_CodeCellsInOrder ==
    /\ frame.active =>
          call.executed = CodeIndices(frame.cells, frame.i - 1)
    /\ outcome.kind = "returned" =>
          /\ call.executed = CodeIndices(call.cells, Len(call.cells))
          /\ call.cells = DocXY =>
                /\ mods[outcome.mod].dict["x"] = 1
                /\ mods[outcome.mod].dict["y"] = 2
    /\ FragmentRaised =>
          /\ call.executed # <<>>
          /\ call.executed =
                CodeIndices(call.cells, call.executed[Len(call.executed)])

\* the document x = 1, prose, y = x + 1 has been imported
C3_Witness ==
    /\ outcome.kind = "returned"
    /\ call.cells = DocXY
    /\ call.executed = <<1, 3>>
    /\ sys_modules[outcome.fullname] = outcome.mod

\* the namespace of a module nothing has been executed in
FreshDict == [n \in {"get_ipython"} |-> "<function get_ipython>"]

\* the namespace after the code cells among the first n cells have run, one
\* after the other, in a fresh namespace
RECURSIVE NsAfter(_, _)
NsAfter(cells, n) ==
    IF n = 0 THEN FreshDict
    ELSE IF cells[n].cell_type = "code"
        THEN exec_code(cells[n].source, NsAfter(cells, n - 1)).ns
        ELSE NsAfter(cells, n - 1)

\* cell k is a code cell that raises when the cells are run in order
RaisesAt(cells, k) ==
    /\ cells[k].cell_type = "code"
    /\ exec_code(cells[k].source, NsAfter(cells, k - 1)).raised

\* C15: every successful load_module call reads the document as the file
\* holds it at the call, creates a new module and runs all its code cells in
\* a fresh namespace, also when fullname is already registered; the registry
\* then maps fullname to the new module, whose bindings are those of this
\* run alone.
C15_ReimportIsFresh ==
    /\ frame.active => frame.cells = fs[mods[frame.mod].file].cells
    /\ outcome.kind = "returned" =>
          /\ outcome.mod > call.pre_mods
          /\ \A n \in DOMAIN call.pre : call.pre[n] # outcome.mod
          /\ sys_modules[outcome.fullname] = outcome.mod
          /\ call.cells = call.content.cells
          /\ call.executed = CodeIndices(call.cells, Len(call.cells))
          /\ mods[outcome.mod].dict = NsAfter(call.cells, Len(call.cells))

\* G was imported as x = 1, y = x + 1, saved as x = 2 and imported again: the
\* second module has no y
C15_Witness ==
    /\ outcome.kind = "returned"
    /\ outcome.mod = 2
    /\ outcome.fullname \in DOMAIN call.pre
    /\ call.pre[outcome.fullname] = 1
    /\ call.cells = DocX2
    /\ "y" \in DOMAIN mods[1].dict
    /\ "y" \notin DOMAIN mods[2].dict

\* C16: a load_module call whose file is not resolved or is not a well-formed
\* document ends with an error, with no fragment executed, no module created
\* and the registry and shell.user_ns as before the call.
C16_EarlyFailureLeavesState ==
    (call.self # 0 /\ (call.path = NoneV \/ ~call.content.wellformed)) =>
        /\ outcome = Raised(IF call.path = NoneV THEN "open" ELSE "read",
                            call.fullname)
        /\ ~frame.active
        /\ call.executed = <<>>
        /\ Len(mods) = call.pre_mods
        /\ sys_modules = call.pre
        /\ user_ns = call.pre_user_ns

\* an import fails before execution while another module is registered
C16_Witness ==
    /\ outcome.kind = "raised"
    /\ outcome.stage \in {"open", "read"}
    /\ call.pre # EmptyRegistry
    /\ sys_modules = call.pre

\* C17: when a code fragment raises, it is the last one executed: no later
\* fragment runs and the call ends with the error, returning no module.
C17_StopsAtFirstFailure ==
    \A j \in 1..Len(call.executed) :
        RaisesAt(call.cells, call.executed[j]) =>
            /\ j = Len(call.executed)
            /\ ~frame.active
            /\ outcome = Raised("exec", call.fullname)

\* the second of three code cells raised and the third never ran
C17_Witness ==
    /\ FragmentRaised
    /\ call.cells = DocRaise2
    /\ call.executed = <<1, 2>>
    /\ ~frame.active

\* C20: while fragments execute shell.user_ns is the namespace of the module
\* being imported; once load_module has ended, by a return or an exception,
\* shell.user_ns is the object it was before the call.
C20_UserNsRestored ==
    /\ frame.active => user_ns = frame.mod
    /\ (call.self # 0 /\ ~frame.active) => user_ns = call.pre_user_ns

\* a fragment raised after shell.user_ns had been the module's namespace
C20_Witness ==
    /\ FragmentRaised
    /\ call.executed # <<>>
    /\ user_ns = MainNs
    /\ call.pre_user_ns = MainNs

----------------------------------------------------------------------------
(* Claims about find_module and the registration *)

\* what find_notebook finds for the last find_module call
FinderMatch == find_notebook(fm.fullname, fm.path, fs)

\* C11: a find_module call for which find_notebook finds no match declines
\* (returns None, raises nothing) and leaves the Finder's loaders dict, the
\* Loader objects and the module registry as they were.
C11_DeclinesWithoutEffect ==
    [][(fm' # fm /\ find_notebook(fm'.fullname, fm'.path, fs) = NoneV) =>
          /\ fm'.kind = "declined"
          /\ finders' = finders
          /\ loaderObjs' = loaderObjs
          /\ sys_modules' = sys_modules]_vars

\* a call declined on a Finder that already holds a Loader
C11_Witness ==
    /\ fm.kind = "declined"
    /\ FinderMatch = NoneV
    /\ finders[fm.finder] # EmptyCache

\* C12: calls on one Finder that found a match for the same search path were
\* handed the identical Loader; the Loader stays the entry of its key, and no
\* more Loaders exist than keys.
C12_SamePathSameLoader ==
    /\ \A a \in handed, b \in handed :
          (a[1] = b[1] /\ a[2] = b[2]) => a[3] = b[3]
    /\ \A a \in handed :
          /\ cache_key(a[2]) \in DOMAIN finders[a[1]]
          /\ finders[a[1]][cache_key(a[2])] = a[3]
    /\ \A f \in 1..Len(finders) :
          \A j \in DOMAIN finders[f], k \in DOMAIN finders[f] :
              finders[f][j] = finders[f][k] => j = k

\* a call is answered from the loaders dict
C12_Witness ==
    /\ fm.kind = "loader"
    /\ ~fm.created
    /\ <<fm.finder, fm.path, fm.loader>> \in handed

\* C13: calls on one Finder that found a match for different search paths
\* were handed different Loaders.
C13_DifferentPathsDifferentLoaders ==
    \A a \in handed, b \in handed :
        (a[1] = b[1] /\ a[2] # b[2]) => a[3] # b[3]

\* C14: the Loader find_module(fullname, P) returned, asked to load fullname,
\* loads the file find_notebook(fullname, P) found.
C14_LoaderResolvesRequestPath ==
    [][(/\ call' # call
        /\ call'.executed = <<>>
        /\ fm.kind = "loader"
        /\ call'.self = fm.loader
        /\ call'.fullname = fm.fullname) =>
          /\ frame'.active
          /\ mods'[frame'.mod].file = FinderMatch[1]]_vars

\* C18: registering appends the Finder at the end of the chain: what was in
\* the chain is still there, in the same order and ahead of the Finder, and
\* the chain holds that Finder once.
C18_FinderAppendedOnce ==
    reg.done =>
        /\ Len(meta_path) = Len(reg.before) + 1
        /\ \A i \in 1..Len(reg.before) : meta_path[i] = reg.before[i]
        /\ meta_path[Len(meta_path)] = FinderEntry(reg.finder)
        /\ Cardinality({i \in 1..Len(meta_path) :
                            meta_path[i] = FinderEntry(reg.finder)}) = 1

\* the Finder is registered behind the three mechanisms of the host
C18_Witness ==
    /\ reg.done
    /\ Len(reg.before) = 3
    /\ Len(finders) >= 1

\* C19: whenever find_notebook finds a match for the name and the search path
\* given, None and the empty list included, find_module returns a Loader.
C19_MatchGivesLoader ==
    (fm.called /\ FinderMatch # NoneV) => fm.kind = "loader"

\* every entry of every loaders dict is keyed by its Loader's search path
CacheEntriesKeyed ==
    \A f \in 1..Len(finders) :
        \A k \in DOMAIN finders[f] :
            LET p == loaderObjs[finders[f][k]].path
            IN  \/ k = NoneV /\ path_falsy(p)
                \/ p # NoneV /\ k = Some(sep_join(p[1]))

\* a step keeps every entry of every loaders dict, and a dict that changed
\* got one entry more, from a find_module call on that Finder that found a
\* match
CacheOnlyGrows ==
    /\ Len(finders') >= Len(finders)
    /\ \A f \in 1..Len(finders) :
          /\ \A k \in DOMAIN finders[f] :
                k \in DOMAIN finders'[f] /\ finders'[f][k] = finders[f][k]
          /\ finders'[f] # finders[f] =>
                /\ Cardinality(DOMAIN finders'[f]) = Cardinality(DOMAIN finders[f]) + 1
                /\ fm' # fm
                /\ fm'.finder = f
                /\ fm'.kind = "loader"
                /\ find_notebook(fm'.fullname, fm'.path, fs) # NoneV

\* C21: in every state each entry (key, loader) of a Finder's loaders dict has
\* key None with loader.path falsy, or key equal to the separator join of
\* loader.path; every step keeps the entries there are, and only a
\* find_module call that found a match adds one.
C21_CacheKeyedAndGrowing == []CacheEntriesKeyed /\ [][CacheOnlyGrows]_vars

\* a loaders dict holds the entry of None and the entry of 'c/c', and the last
\* call, for ['c', 'c'], added nothing
C21_Witness ==
    /\ fm.kind = "loader"
    /\ ~fm.created
    /\ fm.path = Some(<<dc, dc>>)
    /\ DOMAIN finders[fm.finder] = {NoneV, Some(dcc)}

----------------------------------------------------------------------------
(* Claims about the matrix functions *)

\* every row of A has as many entries as the first
Rectangular(A) == \A i \in DOMAIN A : Len(A[i]) = Len(A[1])

AddCalled == mx.called /\ mx.op = "matrix_add"

MakeCalled == mx.called /\ mx.op = "make_matrix"

\* C22: matrix_add(A, B) raises ArithmeticError, returning no matrix, whenever
\* shape(A) != shape(B); when both have rows of equal length and the same
\* shape it returns a matrix of that shape whose (i, j) entry is
\* A[i][j] + B[i][j]; A and B hold after the call what they held before.
C22_MatrixAdd ==
    AddCalled =>
        /\ mx.A = mx.A0
        /\ mx.B = mx.B0
        /\ shape(mx.A0) # shape(mx.B0) => mx.result = Raise("ArithmeticError")
        /\ (/\ Rectangular(mx.A0)
            /\ Rectangular(mx.B0)
            /\ shape(mx.A0) = shape(mx.B0)) =>
              /\ mx.result.kind = "matrix"
              /\ shape(mx.result.value) = shape(mx.A0)
              /\ Len(mx.result.value) = Len(mx.A0)
              /\ \A i \in DOMAIN mx.A0 :
                    /\ Len(mx.result.value[i]) = Len(mx.A0[i])
                    /\ \A j \in DOMAIN mx.A0[i] :
                          mx.result.value[i][j] = mx.A0[i][j] + mx.B0[i][j]

\* two different matrices of two rows and one column were added
C22_Witness ==
    /\ AddCalled
    /\ mx.result.kind = "matrix"
    /\ shape(mx.A0) = <<2, 1>>
    /\ Rectangular(mx.A0)
    /\ Rectangular(mx.B0)
    /\ mx.A0 # mx.B0
    /\ mx.A0[1] # mx.A0[2]

\* the value of make_matrix(num_rows, num_cols, entry_fn) is a matrix of
\* num_rows rows of num_cols entries each, entry (i, j) being entry_fn(i, j)
MadeAsAsked ==
    /\ mx.result.kind = "matrix"
    /\ Len(mx.result.value) = mx.num_rows
    /\ \A i \in 0..(mx.num_rows - 1) :
          /\ Len(mx.result.value[i + 1]) = mx.num_cols
          /\ \A j \in 0..(mx.num_cols - 1) :
                mx.result.value[i + 1][j + 1] = mx.entry_fn[<<i, j>>][1]

\* C23 as stated: for all num_rows >= 0 and num_cols >= 0 the matrix made is
\* num_rows x num_cols with entry_fn(i, j) at (i, j), and its shape is
\* (num_rows, num_cols).
C23_ShapeIsRowsByCols ==
    MakeCalled =>
        /\ MadeAsAsked
        /\ shape(mx.result.value) = <<mx.num_rows, mx.num_cols>>

\* C23: the matrix made is num_rows x num_cols with entry_fn(i, j) at (i, j),
\* and its shape is (num_rows, num_cols) when num_rows >= 1 and (0, 0) when
\* num_rows = 0, whatever num_cols is.
C23_ShapeIsRowsByColsUnlessNoRows ==
    MakeCalled =>
        /\ MadeAsAsked
        /\ shape(mx.result.value) =
              <<mx.num_rows, IF mx.num_rows = 0 THEN 0 ELSE mx.num_cols>>

\* a matrix of no rows was asked with one column: the list made is empty
C23_Witness ==
    /\ MakeCalled
    /\ mx.num_rows = 0
    /\ mx.num_cols = 1
    /\ mx.result = Returned(<<>>)
    /\ shape(mx.result.value) = <<0, 0>>

----------------------------------------------------------------------------
(* What the claims about find_notebook speak of, stated without the code *)

\* the last segment of the dotted name requested
BaseName == fn.segs[Len(fn.segs)]

\* the directories searched: the list given, or the current directory alone
SearchDirs == IF fn.path = NoneV \/ fn.path = Some(<<>>) THEN << <<>> >> ELSE fn.path[1]

\* the file called base.ipynb in directory d
InDir(d, base) == os_path_join(d, base \o Ext)

\* the base name with its underscores turned into spaces
Spaced(base) == str_replace(base)

\* directory d holds a file matching the request, exactly or by the fallback
DirHasMatch(d) ==
    \/ InDir(d, BaseName) \in DOMAIN fs
    \/ InDir(d, Spaced(BaseName)) \in DOMAIN fs

\* the file name of a path: what follows its last "/"
FileName(p) ==
    LET slashes == {i \in 1..Len(p) : p[i] = "/"}
    IN  IF slashes = {} THEN p
        ELSE SubSeq(p, (CHOOSE i \in slashes : \A j \in slashes : j <= i) + 1, Len(p))

Found == fn.called /\ fn.result # NoneV

\* C4: find_notebook returns the path of an existing file if and only if some
\* directory of the search path contains a file matching the name (exactly or
\* by the underscore-to-space fallback), and never a path that does not exist.
C4_ResolvesIffMatch ==
    fn.called =>
        /\ (fn.result # NoneV) <=>
               (\E i \in 1..Len(SearchDirs) : DirHasMatch(SearchDirs[i]))
        /\ fn.result # NoneV => fn.result[1] \in DOMAIN fs

\* C5: when directories of the search path contain a match, the file returned
\* is the match in the earliest such directory, whatever kind of match it is.
C5_FirstDirectoryWins ==
    (fn.called /\ \E i \in 1..Len(SearchDirs) : DirHasMatch(SearchDirs[i])) =>
        LET first == CHOOSE i \in 1..Len(SearchDirs) :
                        /\ DirHasMatch(SearchDirs[i])
                        /\ \A j \in 1..(i - 1) : ~DirHasMatch(SearchDirs[j])
            d == SearchDirs[first]
        IN  fn.result = IF InDir(d, BaseName) \in DOMAIN fs
                            THEN Some(InDir(d, BaseName))
                            ELSE Some(InDir(d, Spaced(BaseName)))

\* the request has underscores and the file returned is named by the fallback
FallbackReturned ==
    /\ Found
    /\ BaseName # Spaced(BaseName)
    /\ FileName(fn.result[1]) = Spaced(BaseName) \o Ext

\* C6 as claimed: a request Foo_Bar returns a file named "Foo Bar.ipynb" only
\* if no file Foo_Bar.ipynb exists in any directory of the search path and
\* the file returned exists. (Stated for a file returned from a directory of
\* the search path itself, the case the claim has in mind.)
C6_FallbackOnlyIfNoExactAnywhere ==
    (/\ FallbackReturned
     /\ \E i \in 1..Len(SearchDirs) :
           fn.result[1] = InDir(SearchDirs[i], Spaced(BaseName))) =>
        /\ \A i \in 1..Len(SearchDirs) :
              InDir(SearchDirs[i], BaseName) \notin DOMAIN fs
        /\ fn.result[1] \in DOMAIN fs

\* C6 as amended: a request Foo_Bar returns a file named "Foo Bar.ipynb" only
\* if that file exists and it is the fallback candidate of a directory of the
\* search path such that neither that directory nor any earlier one holds
\* Foo_Bar.ipynb; a Foo_Bar.ipynb in a later directory does not prevent it.
C6_FallbackOnlyIfNoExactSoFar ==
    FallbackReturned =>
        /\ fn.result[1] \in DOMAIN fs
        /\ \E i \in 1..Len(SearchDirs) :
              /\ fn.result[1] = str_replace(InDir(SearchDirs[i], BaseName))
              /\ \A j \in 1..i :
                    InDir(SearchDirs[j], BaseName) \notin DOMAIN fs

\* the fallback file of the first directory is returned although the second
\* directory holds the file with the underscore
C6_Witness ==
    /\ FallbackReturned
    /\ Len(SearchDirs) = 2
    /\ fn.result[1] = InDir(SearchDirs[1], Spaced(BaseName))
    /\ InDir(SearchDirs[2], BaseName) \in DOMAIN fs

\* C7: the fallback rewrites only the base file name, so the path returned is
\* the exact or the fallback file name inside a directory of the search path.
C7_FallbackInsideSearchPath ==
    Found =>
        \E i \in 1..Len(SearchDirs) :
            \/ fn.result[1] = InDir(SearchDirs[i], BaseName)
            \/ fn.result[1] = InDir(SearchDirs[i], Spaced(BaseName))

\* C8: with no search path (None) or an empty list the result is that of the
\* call with the single current-directory entry: base.ipynb in the current
\* directory, else its underscore-to-space variant, else None.
C8_DefaultIsCurrentDirectory ==
    (fn.called /\ fn.path \in {NoneV, Some(<<>>)}) =>
        /\ fn.result = find_notebook(fn.fullname, Some(<< <<>> >>), fs)
        /\ fn.result =
              IF BaseName \o Ext \in DOMAIN fs THEN Some(BaseName \o Ext)
              ELSE IF Spaced(BaseName) \o Ext \in DOMAIN fs
                  THEN Some(Spaced(BaseName) \o Ext)
              ELSE NoneV

\* the empty list finds the fallback file of the current directory
C8_Witness ==
    /\ fn.called
    /\ fn.path = Some(<<>>)
    /\ fn.result = Some(sFsB \o Ext)

C10_PrefixBecomesDirectory ==
    (fn.called /\ fn.segs = <<sp, sG>> /\ fn.path = NoneV) =>
        fn.result = IF InDir(sp, sG) \in DOMAIN fs
                        THEN Some(InDir(sp, sG))
                        ELSE NoneV

====
